---- MODULE Spec2Model ----
(***************************************************************************)
(* Model of the "Clonador de Anuncios IA" application: the two Gemini      *)
(* service operations (extractAdContentFromUrl, optimizeAdContent) and the *)
(* React session state of App that invokes them.                           *)
(*                                                                         *)
(* App imports ./services/geminiService and ./types: the service with the  *)
(* eight preserved fields and the types with Specification.  The copies    *)
(* under src/ (src/services/geminiService.ts, src/types.ts) are an older   *)
(* version that App does not import: they have no Specification type and   *)
(* restore imageUrls alone.  The model follows the imported files.         *)
(***************************************************************************)
EXTENDS Integers, Sequences, FiniteSets, TLC

VARIABLES url, adContent, status, error, pending, edits, invoked, svc

vars == <<url, adContent, status, error, pending, edits, invoked, svc>>

(***************************************************************************)
(* JavaScript values.  Every value is tagged, so that values of different  *)
(* JavaScript types can be compared.  An object is a function from its own *)
(* property names to values; a property that was assigned undefined is in  *)
(* the domain with the value Undefined, a property never set is not.       *)
(***************************************************************************)
Undefined == [t |-> "undefined", v |-> ""]

JSNull == [t |-> "null", v |-> ""]

Str(s) == [t |-> "str", v |-> s]

Num(n) == [t |-> "num", v |-> n]

Arr(q) == [t |-> "arr", v |-> q]

Obj(f) == [t |-> "obj", v |-> f]

\* o.f for an object's property map o: undefined when o has no such property.
Get(o, f) == IF f \in DOMAIN o THEN o[f] ELSE Undefined

\* o.f = x, and the property part of { ...o, [f]: x }.
Set(o, f, x) == [g \in DOMAIN o \cup {f} |-> IF g = f THEN x ELSE o[g]]

\* value.f for any JavaScript value that is not null or undefined: only
\* objects carry the named properties (strings, numbers and arrays have none
\* of the listing's property names).
Prop(val, f) == IF val.t = "obj" THEN Get(val.v, f) ELSE Undefined

\* JavaScript truthiness, as used by the ! operator.
Truthy(val) ==
    CASE val.t = "undefined" -> FALSE
      [] val.t = "null" -> FALSE
      [] val.t = "str" -> val.v # ""
      [] val.t = "num" -> val.v # 0
      [] OTHER -> TRUE

\* Array.isArray(value)
IsArray(val) == val.t = "arr"

(***************************************************************************)
(* The listing record (AdContent) and its fields.                          *)
(***************************************************************************)
RequiredFields == {"title", "description", "tags", "imageUrls"}

OptionalFields ==
    {"brand", "price", "category", "specifications", "condition", "sku", "availability"}

Fields == RequiredFields \cup OptionalFields

\* The fields optimizeAdContent copies back from the record it was given.
PreservedFields ==
    {"imageUrls", "price", "brand", "category", "condition", "sku", "availability",
     "specifications"}

\* The enum AppStatus.
AppStatus == {"Idle", "Extracting", "Optimizing", "Success", "Error"}

(***************************************************************************)
(* What the remote model may answer.  A response is a rejected call, a     *)
(* response without text, a text that is not JSON, or a text that is the   *)
(* JSON encoding of a value.                                               *)
(***************************************************************************)
Rejected == [kind |-> "rejected", body |-> Undefined]

NoText == [kind |-> "notext", body |-> Undefined]

Malformed == [kind |-> "malformed", body |-> Undefined]

Json(val) == [kind |-> "json", body |-> val]

\* A marker used only to build objects: the field is left out.
Absent == [t |-> "absent", v |-> ""]

\* The object with the fields of c that are not Absent.
MkObj(c) == [f \in {g \in DOMAIN c : c[g] # Absent} |-> c[f]]

TitleChoices == {Absent, Str(""), Str("Widget")}

DescriptionChoices == {Absent, JSNull, Str("A widget.")}

TagsChoices == {Absent, Str("widget"), Arr(<<"widget">>)}

ImageUrlsChoices == {Absent, Str("https://img/1.jpg"), Arr(<<"https://img/1.jpg">>)}

\* A second well-formed answer, differing from the first in every required field.
RequiredB ==
    [title |-> Str("Acme Widget Pro"), description |-> Str("Buy now."),
     tags |-> Arr(<<"acme", "widget">>), imageUrls |-> Arr(<<>>)]

RequiredParts ==
    { MkObj([title |-> a, description |-> b, tags |-> c, imageUrls |-> d]) :
        a \in TitleChoices, b \in DescriptionChoices, c \in TagsChoices,
        d \in ImageUrlsChoices } \cup {RequiredB}

OptNone == MkObj([price |-> Absent])

OptFull ==
    [brand |-> Str("Acme"), price |-> Str("$10"), category |-> Str("Tools"),
     specifications |-> Arr(<<[key |-> "Color", value |-> "Red"]>>),
     condition |-> Str("New"), sku |-> Str("W-1"), availability |-> Str("In stock")]

OptDrift ==
    [brand |-> Str("ACME Inc."), price |-> Str("$12"), category |-> Str("Hardware"),
     specifications |-> Arr(<<>>),
     condition |-> Str("Used"), sku |-> Str("W-2"), availability |-> Str("Sold out")]

OptPartial ==
    [price |-> Str("$10"),
     specifications |->
        Arr(<<[key |-> "Color", value |-> "Red"], [key |-> "Color", value |-> "Blue"]>>)]

OptionalParts == {OptNone, OptFull, OptDrift, OptPartial}

Responses ==
    {Rejected, NoText, Malformed, Json(JSNull), Json(Num(7)), Json(Arr(<<>>))}
      \cup { Json(Obj(r @@ o)) : r \in RequiredParts, o \in OptionalParts }

(***************************************************************************)
(* Completions of a block of code: a returned value or a thrown error.     *)
(***************************************************************************)
Return(val) == [ok |-> TRUE, value |-> val, error |-> ""]

Throw(msg) == [ok |-> FALSE, value |-> Undefined, error |-> msg]

\* JSON.parse(response.text.trim())
JSONparse(resp) ==
    IF resp.kind = "malformed" THEN Throw("SyntaxError") ELSE Return(resp.body)

\* await ai.models.generateContent(...) followed by response.text.trim()
GenerateContentText(resp) ==
    CASE resp.kind = "rejected" -> Throw("RemoteCallError")
      [] resp.kind = "notext" -> Throw("TypeError")
      [] OTHER -> Return(resp)

(***************************************************************************)
(* services/geminiService: extractAdContentFromUrl                         *)
(***************************************************************************)
\* The "Basic validation" condition of extractAdContentFromUrl.
ExtractInvalid(parsedJson) ==
    \/ ~Truthy(Prop(parsedJson, "title"))
    \/ ~Truthy(Prop(parsedJson, "description"))
    \/ ~IsArray(Prop(parsedJson, "tags"))

\* A variant of ExtractReturn that keeps only the four required fields.
ExtractReturnRequiredOnly(parsedJson) ==
    Return(Obj([f \in DOMAIN parsedJson.v \cap RequiredFields |-> parsedJson.v[f]]))

\* return parsedJson as AdContent: the parsed object itself.
ExtractReturn(parsedJson) == Return(parsedJson)

\* The try block of extractAdContentFromUrl.  Reading a property of null
\* throws a TypeError.
extractTry(u, resp) ==
    LET text == GenerateContentText(resp) IN
    IF ~text.ok THEN text
    ELSE LET parsed == JSONparse(text.value) IN
         IF ~parsed.ok THEN parsed
         ELSE LET parsedJson == parsed.value IN
              IF parsedJson.t = "null" THEN Throw("TypeError")
              ELSE IF ExtractInvalid(parsedJson)
                   THEN Throw("Invalid JSON structure received from API.")
                   ELSE ExtractReturn(parsedJson)

\* The catch block of extractAdContentFromUrl: logs, throws one fixed error.
extractCatch(r) ==
    IF r.ok THEN r ELSE Throw("Failed to process the URL with Gemini API.")

extractAdContentFromUrl(u, resp) == extractCatch(extractTry(u, resp))

(***************************************************************************)
(* services/geminiService: optimizeAdContent                               *)
(***************************************************************************)
\* The prompt is built before the try block: currentContent.tags.join(...)
\* and currentContent.specifications?.map(...) throw a TypeError, outside
\* the try, when tags is no array or specifications is neither nullish nor
\* an array.
PromptThrows(currentContent) ==
    \/ ~IsArray(Prop(currentContent, "tags"))
    \/ Prop(currentContent, "specifications").t \notin {"undefined", "null", "arr"}

\* A variant of PreserveFactual that restores imageUrls alone.
PreserveImagesOnly(o, c) == Set(o, "imageUrls", Get(c, "imageUrls"))

\* A variant of PreserveFactual that restores a field only where the
\* response left it out.
PreserveOmittedOnly(o, c) ==
    [f \in DOMAIN o \cup PreservedFields |->
        IF f \in DOMAIN o THEN o[f] ELSE Get(c, f)]

\* A variant of PreserveFactual that spreads the whole current record over
\* the response.
PreserveSpreadCurrent(o, c) ==
    [f \in DOMAIN o \cup DOMAIN c \cup PreservedFields |->
        IF f \in DOMAIN c THEN c[f] ELSE IF f \in PreservedFields THEN Undefined ELSE o[f]]

\* The eight assignments that copy the factual fields of currentContent
\* into the parsed response (o and c are property maps).
PreserveFactual(o, c) ==
    LET p1 == Set(o, "imageUrls", Get(c, "imageUrls"))
        p2 == Set(p1, "price", Get(c, "price"))
        p3 == Set(p2, "brand", Get(c, "brand"))
        p4 == Set(p3, "category", Get(c, "category"))
        p5 == Set(p4, "condition", Get(c, "condition"))
        p6 == Set(p5, "sku", Get(c, "sku"))
        p7 == Set(p6, "availability", Get(c, "availability"))
    IN  Set(p7, "specifications", Get(c, "specifications"))

\* The validation condition of optimizeAdContent, evaluated after the
\* assignments.
OptimizeInvalid(parsedJson) ==
    \/ ~Truthy(Prop(parsedJson, "title"))
    \/ ~Truthy(Prop(parsedJson, "description"))
    \/ ~IsArray(Prop(parsedJson, "tags"))

\* The try block of optimizeAdContent.  Assigning a property of null, or
\* (in module code, which is strict) of a primitive, throws a TypeError; an
\* array takes the assignments and then fails the validation.
optimizeTry(currentContent, resp) ==
    LET text == GenerateContentText(resp) IN
    IF ~text.ok THEN text
    ELSE LET parsed == JSONparse(text.value) IN
         IF ~parsed.ok THEN parsed
         ELSE LET parsedJson == parsed.value IN
              IF parsedJson.t \in {"null", "str", "num"} THEN Throw("TypeError")
              ELSE IF parsedJson.t = "arr"
                   THEN Throw("Invalid JSON structure received from API during optimization.")
                   ELSE LET merged == Obj(PreserveFactual(parsedJson.v, currentContent.v)) IN
                        IF OptimizeInvalid(merged)
                        THEN Throw("Invalid JSON structure received from API during optimization.")
                        ELSE Return(merged)

\* A variant of optimizeCatch that rethrows the error it caught.
optimizeCatchRethrow(r) == r

\* The catch block of optimizeAdContent.
optimizeCatch(r) ==
    IF r.ok THEN r ELSE Throw("Failed to optimize the content with Gemini API.")

optimizeAdContent(currentContent, resp) ==
    IF PromptThrows(currentContent) THEN Throw("TypeError")
    ELSE optimizeCatch(optimizeTry(currentContent, resp))

(***************************************************************************)
(* App: the session state and its handlers.                                *)
(*   url, adContent, status, error  the four useState cells                *)
(*   pending   the remote calls awaited by a handler, each with the        *)
(*             argument its closure captured                               *)
(*   edits     how many field edits the user has made (bounded)            *)
(*   invoked   the handler or continuation that ran last                   *)
(*   svc       the last direct call of a service function (SpecService)    *)
(***************************************************************************)
MaxEdits == 2

Urls == {"", "https://shop.example/item/123"}

EmptyUrlMessage == Str("Por favor, insira um URL valido.")

ExtractFailedMessage ==
    Str("Nao foi possivel extrair o conteudo. Verifique o URL e tente novamente.")

OptimizeFailedMessage == Str("Ocorreu um erro durante a otimizacao.")

ExtractCall(u) == [op |-> "extract", arg |-> Str(u)]

OptimizeCall(content) == [op |-> "optimize", arg |-> content]

NoSvc == [op |-> "none", input |-> Undefined, resp |-> Rejected, result |-> Throw("")]

\* A variant of isProcessing that forgets the Optimizing status.
isProcessingExtractingOnly == status = "Extracting"

\* const isProcessing = status === Extracting || status === Optimizing
isProcessing == status \in {"Extracting", "Optimizing"}

\* {adContent && status !== AppStatus.Extracting && ( ...the form... )}
formVisible == adContent # JSNull /\ status # "Extracting"

\* The answers the remote model gives in a session.
SessionResponses ==
    { Rejected, Malformed,
      Json(Obj(MkObj([title |-> Str("Widget"), description |-> Str("A widget."),
                      tags |-> Arr(<<"widget">>),
                      imageUrls |-> Arr(<<"https://img/1.jpg">>)]) @@ OptFull)),
      Json(Obj(MkObj([title |-> Str("Widget"), description |-> Str("A widget."),
                      tags |-> Arr(<<"widget">>), imageUrls |-> Absent]) @@ OptPartial)),
      Json(Obj(MkObj([title |-> Str(""), description |-> Str("A widget."),
                      tags |-> Arr(<<"widget">>),
                      imageUrls |-> Arr(<<"https://img/1.jpg">>)]) @@ OptNone)),
      Json(Obj(RequiredB @@ OptDrift)) }

Init ==
    /\ url = ""
    /\ adContent = JSNull
    /\ status = "Idle"
    /\ error = JSNull
    /\ pending = {}
    /\ edits = 0
    /\ invoked = "init"
    /\ svc = NoSvc

\* onChange of the URL input, which is disabled while processing.
SetUrl(u) ==
    /\ ~isProcessing
    /\ url' = u
    /\ invoked' = "setUrl"
    /\ UNCHANGED <<adContent, status, error, pending, edits, svc>>

\* A variant of HandleExtract without the check of the URL.
HandleExtractUnguarded ==
    /\ invoked' = "handleExtract"
    /\ error' = JSNull
    /\ adContent' = JSNull
    /\ status' = "Extracting"
    /\ pending' = pending \cup {ExtractCall(url)}
    /\ UNCHANGED <<url, edits, svc>>

\* A variant of HandleExtract that does not clear the record.
HandleExtractKeepsRecord ==
    /\ invoked' = "handleExtract"
    /\ IF url = ""
       THEN /\ error' = EmptyUrlMessage
            /\ status' = "Error"
            /\ UNCHANGED <<adContent, pending>>
       ELSE /\ error' = JSNull
            /\ status' = "Extracting"
            /\ pending' = pending \cup {ExtractCall(url)}
            /\ UNCHANGED adContent
    /\ UNCHANGED <<url, edits, svc>>

\* handleExtract, up to its await.
HandleExtract ==
    /\ invoked' = "handleExtract"
    /\ IF url = ""
       THEN /\ error' = EmptyUrlMessage
            /\ status' = "Error"
            /\ UNCHANGED <<adContent, pending>>
       ELSE /\ error' = JSNull
            /\ adContent' = JSNull
            /\ status' = "Extracting"
            /\ pending' = pending \cup {ExtractCall(url)}
    /\ UNCHANGED <<url, edits, svc>>

\* A variant of ResumeExtract that issues the call again when it failed.
ResumeExtractRetries(call, resp) ==
    /\ call \in pending
    /\ call.op = "extract"
    /\ invoked' = "resumeExtract"
    /\ LET r == extractAdContentFromUrl(call.arg.v, resp) IN
       IF r.ok
       THEN /\ adContent' = r.value
            /\ status' = "Success"
            /\ pending' = pending \ {call}
            /\ UNCHANGED error
       ELSE UNCHANGED <<adContent, status, error, pending>>
    /\ UNCHANGED <<url, edits, svc>>

\* handleExtract, from the await on, when the remote call has settled.
ResumeExtract(call, resp) ==
    /\ call \in pending
    /\ call.op = "extract"
    /\ pending' = pending \ {call}
    /\ invoked' = "resumeExtract"
    /\ LET r == extractAdContentFromUrl(call.arg.v, resp) IN
       IF r.ok
       THEN /\ adContent' = r.value
            /\ status' = "Success"
            /\ UNCHANGED error
       ELSE /\ error' = ExtractFailedMessage
            /\ status' = "Error"
            /\ UNCHANGED adContent
    /\ UNCHANGED <<url, edits, svc>>

\* A variant of HandleOptimize without setError(null).
HandleOptimizeKeepsError ==
    /\ invoked' = "handleOptimize"
    /\ IF adContent = JSNull
       THEN UNCHANGED <<error, status, pending>>
       ELSE /\ status' = "Optimizing"
            /\ pending' = pending \cup {OptimizeCall(adContent)}
            /\ UNCHANGED error
    /\ UNCHANGED <<url, adContent, edits, svc>>

\* handleOptimize, up to its await.
HandleOptimize ==
    /\ invoked' = "handleOptimize"
    /\ IF adContent = JSNull
       THEN UNCHANGED <<error, status, pending>>
       ELSE /\ error' = JSNull
            /\ status' = "Optimizing"
            /\ pending' = pending \cup {OptimizeCall(adContent)}
    /\ UNCHANGED <<url, adContent, edits, svc>>

\* A variant of ResumeOptimize whose catch block omits setStatus(Error).
ResumeOptimizeKeepsStatus(call, resp) ==
    /\ call \in pending
    /\ call.op = "optimize"
    /\ pending' = pending \ {call}
    /\ invoked' = "resumeOptimize"
    /\ LET r == optimizeAdContent(call.arg, resp) IN
       IF r.ok
       THEN /\ adContent' = r.value
            /\ status' = "Success"
            /\ UNCHANGED error
       ELSE /\ error' = OptimizeFailedMessage
            /\ UNCHANGED <<status, adContent>>
    /\ UNCHANGED <<url, edits, svc>>

\* A variant of ResumeOptimize in which the record sent for optimization is
\* the session's current record, not the one the handler captured.
ResumeOptimizeCurrentRecord(call, resp) ==
    /\ call \in pending
    /\ call.op = "optimize"
    /\ pending' = pending \ {call}
    /\ invoked' = "resumeOptimize"
    /\ LET r == optimizeAdContent(adContent, resp) IN
       IF r.ok
       THEN /\ adContent' = r.value
            /\ status' = "Success"
            /\ UNCHANGED error
       ELSE /\ error' = OptimizeFailedMessage
            /\ status' = "Error"
            /\ UNCHANGED adContent
    /\ UNCHANGED <<url, edits, svc>>

\* handleOptimize, from the await on.
ResumeOptimize(call, resp) ==
    /\ call \in pending
    /\ call.op = "optimize"
    /\ pending' = pending \ {call}
    /\ invoked' = "resumeOptimize"
    /\ LET r == optimizeAdContent(call.arg, resp) IN
       IF r.ok
       THEN /\ adContent' = r.value
            /\ status' = "Success"
            /\ UNCHANGED error
       ELSE /\ error' = OptimizeFailedMessage
            /\ status' = "Error"
            /\ UNCHANGED adContent
    /\ UNCHANGED <<url, edits, svc>>

\* A variant of ContentChangeUpdater that starts a record when there is none.
ContentChangeUpdaterCreates(prev, field, value) ==
    IF prev # JSNull THEN Obj(Set(prev.v, field, value))
    ELSE Obj(Set(<<>>, field, value))

\* The state updater of handleContentChange.
ContentChangeUpdater(prev, field, value) ==
    IF prev # JSNull THEN Obj(Set(prev.v, field, value)) ELSE JSNull

HandleContentChange(field, value) ==
    /\ invoked' = "handleContentChange"
    /\ adContent' = ContentChangeUpdater(adContent, field, value)
    /\ UNCHANGED <<url, status, error, pending, svc>>

\* A variant of SpecificationChangeUpdater that sets the member in every
\* entry, not in the one at index.
SpecificationChangeUpdaterAll(prev, index, field, value) ==
    IF prev = JSNull \/ ~Truthy(Prop(prev, "specifications")) THEN prev
    ELSE LET newSpecs == Prop(prev, "specifications").v IN
         Obj(Set(prev.v, "specifications",
                 Arr([i \in DOMAIN newSpecs |-> [newSpecs[i] EXCEPT ![field] = value]])))

\* The state updater of handleSpecificationChange (indices from 1).
SpecificationChangeUpdater(prev, index, field, value) ==
    IF prev = JSNull \/ ~Truthy(Prop(prev, "specifications")) THEN prev
    ELSE LET newSpecs == Prop(prev, "specifications").v IN
         Obj(Set(prev.v, "specifications",
                 Arr([newSpecs EXCEPT ![index] = [@ EXCEPT ![field] = value]])))

HandleSpecificationChange(index, field, value) ==
    /\ invoked' = "handleSpecificationChange"
    /\ adContent' = SpecificationChangeUpdater(adContent, index, field, value)
    /\ UNCHANGED <<url, status, error, pending, svc>>

\* What the user types into a text input.
EditTexts == {"", "Edited"}

\* What the user types into the tags input: comma-separated segments, each
\* with or without surrounding blanks.
TagSegments == {[core |-> "", padded |-> TRUE], [core |-> "sale", padded |-> TRUE]}

TagInputs == {<<a>> : a \in TagSegments} \cup {<<a, b>> : a, b \in TagSegments}

\* e.target.value.split(',').map(tag => tag.trim()).filter(Boolean)
ParseTags(segments) ==
    LET trimmed == [i \in DOMAIN segments |-> segments[i].core]
    IN  Arr(SelectSeq(trimmed, LAMBDA x : x # ""))

\* The fields whose inputs call handleContentChange with the typed text.
TextFields ==
    {"title", "brand", "price", "category", "condition", "sku", "availability",
     "description"}

(***************************************************************************)
(* The controls App renders, each enabled as its disabled attribute and    *)
(* the conditional rendering allow.                                        *)
(***************************************************************************)
\* <button onClick={handleExtract} disabled={isProcessing || !url}>
ClickExtract ==
    /\ ~(isProcessing \/ url = "")
    /\ HandleExtract

\* <button onClick={handleOptimize} disabled={isProcessing}>, inside the form
ClickOptimize ==
    /\ formVisible
    /\ ~isProcessing
    /\ HandleOptimize

\* A text input of the form.
EditText ==
    /\ formVisible
    /\ edits < MaxEdits
    /\ edits' = edits + 1
    /\ \E field \in TextFields, text \in EditTexts :
          HandleContentChange(field, Str(text))

\* The tags input of the form.
EditTags ==
    /\ formVisible
    /\ edits < MaxEdits
    /\ edits' = edits + 1
    /\ \E segments \in TagInputs : HandleContentChange("tags", ParseTags(segments))

\* The key and value inputs, rendered for each entry of a non-empty
\* specifications array.
EditSpecification ==
    /\ formVisible
    /\ edits < MaxEdits
    /\ edits' = edits + 1
    /\ Truthy(Prop(adContent, "specifications"))
    /\ \E index \in 1..Len(Prop(adContent, "specifications").v),
          field \in {"key", "value"}, text \in EditTexts :
          HandleSpecificationChange(index, field, text)

\* The remote call of an extraction settles.
ExtractSettles == \E call \in pending, resp \in SessionResponses : ResumeExtract(call, resp)

\* The remote call of an optimization settles.
OptimizeSettles == \E call \in pending, resp \in SessionResponses : ResumeOptimize(call, resp)

Next ==
    \/ \E u \in Urls : SetUrl(u)
    \/ ClickExtract
    \/ ExtractSettles
    \/ ClickOptimize
    \/ OptimizeSettles
    \/ EditText
    \/ EditTags
    \/ EditSpecification

Spec == Init /\ [][Next]_vars

\* The session when every remote call eventually resolves or rejects: the
\* await of each handler is eventually resumed.
SpecFair ==
    /\ Init
    /\ [][Next]_vars
    /\ WF_vars(ExtractSettles)
    /\ WF_vars(OptimizeSettles)

(***************************************************************************)
(* The handlers invoked where App renders no enabled control for them: the *)
(* branches with which they guard themselves.                              *)
(***************************************************************************)
ExtractWithoutUrl ==
    /\ ~isProcessing
    /\ url = ""
    /\ HandleExtract

OptimizeWithoutRecord ==
    /\ adContent = JSNull
    /\ HandleOptimize

ContentChangeWithoutRecord ==
    /\ adContent = JSNull
    /\ UNCHANGED edits
    /\ \E field \in TextFields, text \in EditTexts :
          HandleContentChange(field, Str(text))

SpecificationChangeWithoutSpecifications ==
    /\ adContent = JSNull \/ ~Truthy(Prop(adContent, "specifications"))
    /\ UNCHANGED edits
    /\ \E field \in {"key", "value"}, text \in EditTexts :
          HandleSpecificationChange(1, field, text)

NextGuards ==
    \/ Next
    \/ ExtractWithoutUrl
    \/ OptimizeWithoutRecord
    \/ ContentChangeWithoutRecord
    \/ SpecificationChangeWithoutSpecifications

SpecGuards == Init /\ [][NextGuards]_vars

(***************************************************************************)
(* The service functions called directly: extractAdContentFromUrl on a URL *)
(* and any response, optimizeAdContent on a record a service call has      *)
(* returned and any response.                                              *)
(***************************************************************************)
ServiceUrls == Urls \ {""}

SvcExtract ==
    /\ \E u \in ServiceUrls, resp \in Responses :
          svc' = [op |-> "extract", input |-> Str(u), resp |-> resp,
                  result |-> extractAdContentFromUrl(u, resp)]
    /\ UNCHANGED <<url, adContent, status, error, pending, edits, invoked>>

SvcOptimize ==
    /\ svc.result.ok
    /\ \E resp \in Responses :
          svc' = [op |-> "optimize", input |-> svc.result.value, resp |-> resp,
                  result |-> optimizeAdContent(svc.result.value, resp)]
    /\ UNCHANGED <<url, adContent, status, error, pending, edits, invoked>>

NextService == SvcExtract \/ SvcOptimize

SpecService == Init /\ [][NextService]_vars

(***************************************************************************)
(* Properties.                                                             *)
(***************************************************************************)
OptimizeSucceeded == svc.op = "optimize" /\ svc.result.ok

ExtractCalled == svc.op = "extract"

\* The response is JSON that lacks one of the four required fields: no
\* title, no description, tags not an array or imageUrls not an array.
LacksRequiredField(resp) ==
    /\ resp.kind = "json"
    /\ \/ Prop(resp.body, "title") = Undefined
       \/ Prop(resp.body, "description") = Undefined
       \/ ~IsArray(Prop(resp.body, "tags"))
       \/ ~IsArray(Prop(resp.body, "imageUrls"))

\* C1: after every successful optimizeAdContent call, whatever the model
\* answered, each of imageUrls, price, brand, category, condition, sku,
\* availability and specifications reads in the result as it reads in the
\* input record (undefined where the input has none).
C1_PreservedFieldsRestored ==
    OptimizeSucceeded =>
        \A f \in PreservedFields : Prop(svc.result.value, f) = Prop(svc.input, f)

\* The input has price "$10" and one specification; the model answered with
\* another price and an empty specifications array.
C1_Witness ==
    /\ OptimizeSucceeded
    /\ Prop(svc.input, "price") = Str("$10")
    /\ Prop(svc.resp.body, "price") = Str("$12")
    /\ Prop(svc.input, "specifications") = Arr(<<[key |-> "Color", value |-> "Red"]>>)
    /\ Prop(svc.resp.body, "specifications") = Arr(<<>>)
    /\ Prop(svc.input, "imageUrls") # Prop(svc.resp.body, "imageUrls")

\* C2: every extraction response that lacks one of the four required fields
\* (title, description, tags as an array, imageUrls as an array) makes
\* extractAdContentFromUrl fail.
C2_MissingRequiredFieldFails ==
    (ExtractCalled /\ LacksRequiredField(svc.resp)) => ~svc.result.ok

\* C3, as stated: every extraction response that is JSON and contains
\* title, description, an array tags and an array imageUrls is returned as
\* the record, unchanged.
C3_ValidResponseReturned ==
    (/\ ExtractCalled
     /\ svc.resp.kind = "json"
     /\ ~LacksRequiredField(svc.resp))
        => (svc.result.ok /\ svc.result.value = svc.resp.body)

\* C3, amended: every extraction response that is JSON and contains a
\* non-empty (truthy) title, a non-empty (truthy) description, an array tags
\* and an array imageUrls is returned as the record, unchanged: every
\* optional field of the response is in the record with its value, and the
\* record has no field the response has not.
C3_TruthyValidResponseReturned ==
    (/\ ExtractCalled
     /\ svc.resp.kind = "json"
     /\ Truthy(Prop(svc.resp.body, "title"))
     /\ Truthy(Prop(svc.resp.body, "description"))
     /\ IsArray(Prop(svc.resp.body, "tags"))
     /\ IsArray(Prop(svc.resp.body, "imageUrls")))
        => (svc.result.ok /\ svc.result.value = svc.resp.body)

\* A valid response with optional fields has been returned.
C3_Witness ==
    /\ ExtractCalled
    /\ svc.result.ok
    /\ IsArray(Prop(svc.resp.body, "imageUrls"))
    /\ Prop(svc.result.value, "sku") = Str("W-1")
    /\ Prop(svc.result.value, "specifications") =
          Arr(<<[key |-> "Color", value |-> "Red"]>>)

\* C4: optimizeAdContent fails whenever the model's response lacks one of
\* title, description, an array tags or an array imageUrls.
C4_OptimizeRejectsMissingField ==
    (svc.op = "optimize" /\ LacksRequiredField(svc.resp)) => ~svc.result.ok

C6_UniformError ==
    /\ (svc.op = "extract" /\ ~svc.result.ok)
          => svc.result = Throw("Failed to process the URL with Gemini API.")
    /\ (svc.op = "optimize" /\ ~svc.result.ok)
          => svc.result = Throw("Failed to optimize the content with Gemini API.")

\* optimizeAdContent has failed on a text that is not JSON.
C6_Witness ==
    /\ svc.op = "optimize"
    /\ svc.resp = Malformed
    /\ ~svc.result.ok

\* C7: when a record has been optimized, optimizing the result again, for
\* any second response, leaves every preserved field as it reads in the
\* original record, after the first call and after the second.
C7_TwiceOptimizedPreserved ==
    OptimizeSucceeded =>
        \A resp2 \in Responses :
            LET second == optimizeAdContent(svc.result.value, resp2) IN
            second.ok =>
                \A f \in PreservedFields :
                    /\ Prop(svc.result.value, f) = Prop(svc.input, f)
                    /\ Prop(second.value, f) = Prop(svc.input, f)

\* A record was optimized with a response that changed its price, and a
\* second response that drops the brand and lists other specifications is
\* accepted.
C7_Witness ==
    /\ OptimizeSucceeded
    /\ Prop(svc.input, "price") = Str("$10")
    /\ Prop(svc.resp.body, "price") = Str("$12")
    /\ \E resp2 \in Responses :
          /\ optimizeAdContent(svc.result.value, resp2).ok
          /\ Prop(resp2.body, "brand") = Undefined
          /\ Prop(resp2.body, "specifications") =
                Arr(<<[key |-> "Color", value |-> "Red"],
                      [key |-> "Color", value |-> "Blue"]>>)

\* The continuation of handleExtract or handleOptimize has just stored a
\* record.
JustSucceeded ==
    invoked' \in {"resumeExtract", "resumeOptimize"} /\ status' = "Success"

\* C8: whenever the session holds a record, its tags and imageUrls are
\* arrays; and right after a successful extraction or optimization its
\* title and description are non-empty.
C8_RecordShape ==
    [][/\ adContent' # JSNull
            => (/\ IsArray(Prop(adContent', "tags"))
                /\ IsArray(Prop(adContent', "imageUrls")))
       /\ JustSucceeded
            => (/\ Truthy(Prop(adContent', "title"))
                /\ Truthy(Prop(adContent', "description")))]_vars

\* C9: a successful optimizeAdContent returns the title, description and
\* tags of the model's response, not those of the input record.
C9_CopyFieldsReplaced ==
    OptimizeSucceeded =>
        \A f \in {"title", "description", "tags"} :
            Prop(svc.result.value, f) = Prop(svc.resp.body, f)

\* The response's title, description and tags all differ from the input's.
C9_Witness ==
    /\ OptimizeSucceeded
    /\ \A f \in {"title", "description", "tags"} :
          Prop(svc.resp.body, f) # Prop(svc.input, f)

\* C10: a record comes into existence only when an awaited extraction
\* succeeds; starting an extraction discards the record; and while a record
\* is held no extraction is in flight.  So optimizations and edits never
\* create a record, and a held record is the outcome of the last extraction
\* started.
C10_RecordOnlyFromExtraction ==
    [][/\ (adContent = JSNull /\ adContent' # JSNull)
            => \E call \in pending :
                  /\ call.op = "extract"
                  /\ pending' = pending \ {call}
                  /\ status' = "Success"
       /\ (\E call \in pending' \ pending : call.op = "extract")
            => adContent' = JSNull
       /\ adContent' # JSNull
            => \A call \in pending' : call.op # "extract"]_vars

\* A record is held, edited after an optimization of an extracted record.
C10_Witness ==
    /\ adContent # JSNull
    /\ invoked = "handleContentChange"
    /\ status = "Success"
    /\ Prop(adContent, "title") = Str("Edited")
    /\ Prop(adContent, "description") = Str("Buy now.")
    /\ Prop(adContent, "price") = Str("$10")

\* C11: no automatic retry.  A remote call is issued only by a step of
\* handleExtract or handleOptimize, which issues exactly one: the
\* extraction of the current URL, or the optimization of the current
\* record.  A continuation, whether the call succeeded or failed, retires
\* the call it awaited and issues none.
C11_NoAutomaticRetry ==
    [][/\ pending' \ pending # {}
            => /\ invoked' \in {"handleExtract", "handleOptimize"}
               /\ Cardinality(pending' \ pending) = 1
       /\ (invoked' = "handleExtract" /\ url # "")
            => pending' = pending \cup {ExtractCall(url)}
       /\ (invoked' = "handleOptimize" /\ adContent # JSNull)
            => pending' = pending \cup {OptimizeCall(adContent)}
       /\ invoked' \in {"resumeExtract", "resumeOptimize"}
            => \E call \in pending : pending' = pending \ {call}]_vars

\* An extraction has failed and no call is in flight.
C11_Witness ==
    /\ invoked = "resumeExtract"
    /\ status = "Error"
    /\ pending = {}

\* C12: while status is Extracting or Optimizing no step issues a remote
\* call (the extract and optimize buttons are disabled), so at most one
\* remote call is in flight at any time.
C12_TriggersDisabledInFlight ==
    [][/\ status \in {"Extracting", "Optimizing"} => pending' \ pending = {}
       /\ Cardinality(pending') <= 1]_vars

\* An optimization is in flight, of a record the user has edited since,
\* while a URL is entered: both buttons would start a call if enabled.
C12_Witness ==
    /\ status = "Optimizing"
    /\ url # ""
    /\ invoked = "handleContentChange"
    /\ \E call \in pending : call.op = "optimize" /\ call.arg # adContent

\* The records a and b have the same properties with the same values, but
\* for the properties in the set except.
SameBut(a, b, except) ==
    /\ DOMAIN a.v \ except = DOMAIN b.v \ except
    /\ \A g \in DOMAIN a.v \ except : a.v[g] = b.v[g]

\* The specifications q and r differ at most in one member of one entry.
OneMemberChanged(q, r) ==
    /\ Len(q) = Len(r)
    /\ \E i \in DOMAIN q, member \in {"key", "value"} :
          /\ \A j \in DOMAIN q \ {i} : r[j] = q[j]
          /\ \A other \in {"key", "value"} \ {member} : r[i][other] = q[i][other]

C14_FailureOutcome ==
    [][/\ invoked' \in {"resumeExtract", "resumeOptimize"}
            => /\ status' \in {"Success", "Error"}
               /\ status' = "Success" => (adContent' # JSNull /\ error' = JSNull)
       /\ (invoked' = "resumeExtract" /\ status' = "Error")
            => /\ adContent' = JSNull
               /\ error' = ExtractFailedMessage
               /\ pending' = {}
               /\ url' # ""
       /\ (invoked' = "resumeOptimize" /\ status' = "Error")
            => /\ adContent' = adContent
               /\ adContent' # JSNull
               /\ error' = OptimizeFailedMessage
               /\ pending' = {}]_vars

\* An extraction has failed in a session that held a record before (the
\* user had edited it): no record is held now.
C14_Witness ==
    /\ invoked = "resumeExtract"
    /\ status = "Error"
    /\ edits > 0
    /\ adContent = JSNull

\* C15: while an optimization is in flight the form's inputs still edit the
\* record; and when the optimization succeeds the session's record becomes
\* the record optimizeAdContent builds from the model's answer and the
\* record captured when the optimization was triggered: every preserved
\* field reads as in that captured record, and nothing of the record edited
\* meanwhile remains.
C15_InFlightEditsOverwritten ==
    [][/\ (status = "Optimizing" /\ edits < MaxEdits)
            => (ENABLED EditText /\ ENABLED EditTags)
       /\ (invoked' = "resumeOptimize" /\ status' = "Success")
            => \E call \in pending :
                  /\ call.op = "optimize"
                  /\ \A f \in PreservedFields :
                        Prop(adContent', f) = Prop(call.arg, f)
                  /\ \E resp \in SessionResponses :
                        adContent' = optimizeAdContent(call.arg, resp).value]_vars

\* An optimization is in flight and the user has since changed the price
\* of the record that was sent.
C15_Witness ==
    /\ status = "Optimizing"
    /\ invoked = "handleContentChange"
    /\ \E call \in pending :
          /\ call.op = "optimize"
          /\ Prop(call.arg, "price") = Str("$10")
          /\ Prop(adContent, "price") = Str("Edited")

\* C16: in every state of the session the error message is non-null
\* exactly when status is Error; status Success implies that a record is
\* held; status Idle or Extracting implies that none is.
C16_StatusConsistency ==
    /\ status \in AppStatus
    /\ (error # JSNull) <=> (status = "Error")
    /\ status = "Success" => adContent # JSNull
    /\ status \in {"Idle", "Extracting"} => adContent = JSNull

\* An optimization has failed: status Error, a message and a record.
C16_Witness ==
    /\ status = "Error"
    /\ error = OptimizeFailedMessage
    /\ adContent # JSNull

\* C17: status is Extracting or Optimizing exactly while the corresponding
\* remote call is outstanding; when every remote call eventually settles,
\* a processing status is eventually followed by Success or Error; the
\* status never returns to Idle; and while the call stays outstanding the
\* status stays at its processing value, since no step but the settling of
\* the call (no timeout, no cancellation) takes the status out of it.
C17_ProcessingUntilSettled ==
    /\ [](/\ status = "Extracting" <=> \E call \in pending : call.op = "extract"
          /\ status = "Optimizing" <=> \E call \in pending : call.op = "optimize")
    /\ (status \in {"Extracting", "Optimizing"}) ~> (status \in {"Success", "Error"})
    /\ [][/\ status # "Idle" => status' # "Idle"
          /\ (status \in {"Extracting", "Optimizing"} /\ pending' = pending)
                => status' = status
          /\ (status \in {"Extracting", "Optimizing"} /\ status' # status)
                => /\ invoked' \in {"resumeExtract", "resumeOptimize"}
                   /\ status' \in {"Success", "Error"}]_vars

\* An optimization was in flight and has settled with success.
C17_Witness ==
    /\ invoked = "resumeOptimize"
    /\ status = "Success"
    /\ pending = {}

====
